---- MODULE Spec2Model ----
(***************************************************************************)
(* Model of the blog content-discovery engine of the portfolio site:       *)
(*   src/src/lib/blogClient.ts                 (lines 1-88: pure helpers)  *)
(*   src/src/app/blog/components/SearchBar.tsx (1-79 SearchBar,            *)
(*                                              80-166 TagFilter,          *)
(*                                              167-436 BlogClient)        *)
(*   src/src/app/blog/components/ResultsCount.tsx (59-177 ActiveFilters)   *)
(*   src/src/app/blog/components/SortDropdown.tsx                          *)
(*                                                                         *)
(* A JavaScript string is a sequence of symbols (one character each; the   *)
(* keywords date, title, asc, desc and bogus are one symbol each), so that *)
(* trim, toLowerCase, includes and the form-urlencoding of a query value   *)
(* are computed, not assumed.  A date is the instant getTime() returns.    *)
(*                                                                         *)
(* One event of the UI thread (a handler, the render it causes and the     *)
(* effects of that render) is one action: React flushes the render and the *)
(* passive effects of a discrete event before the next event is handled.   *)
(***************************************************************************)
EXTENDS Integers, Sequences, FiniteSets, TLC

VARIABLES
    posts,          \* BlogClient prop `posts` (immutable for the page load)
    searchQuery,    \* BlogClient state (SearchBar.tsx:198)
    selectedTags,   \* BlogClient state (SearchBar.tsx:199)
    sortBy,         \* BlogClient state (SearchBar.tsx:200)
    sortOrder,      \* BlogClient state (SearchBar.tsx:201)
    inputValue,     \* SearchBar state  (SearchBar.tsx:18)
    timers,         \* armed setTimeout callbacks of the debounce effect
    url,            \* the query string useSearchParams() currently shows
    navQueue,       \* the navigation of router.push that is not delivered yet
    lastOp,         \* history: the event handled last (and the one before a timer fired)
    clearPhase,     \* history: clear-all invocations since the last user input
    clearSnap,      \* history: FilterState and pushed URL after the first clear-all
    typed,          \* history: the raw input typed last and not overridden since
    pc,             \* position of one evaluation of the filter pipeline
    work,           \* the list the pipeline evaluation holds
    stageIn         \* the list the last pipeline stage received

vars == <<posts, searchQuery, selectedTags, sortBy, sortOrder, inputValue,
          timers, url, navQueue, lastOp, clearPhase, clearSnap, typed,
          pc, work, stageIn>>

ctlVars == <<searchQuery, selectedTags, sortBy, sortOrder, inputValue,
             timers, url, navQueue, lastOp, clearPhase, clearSnap, typed>>

pipeVars == <<pc, work, stageIn>>

(***************************************************************************)
(* Bounds of the model                                                     *)
(***************************************************************************)
MaxPosts == 2       \* longest article list drawn
MaxSelected == 2    \* longest tag selection drawn for a pipeline evaluation

(***************************************************************************)
(* JavaScript strings                                                      *)
(***************************************************************************)
EmptyStr == <<>>

\* String.prototype.toLowerCase, per character
LowerChar(c) == IF c = "A" THEN "a" ELSE IF c = "B" THEN "b" ELSE c

toLowerCase(s) == [i \in 1..Len(s) |-> LowerChar(s[i])]

RECURSIVE trimStart(_)
trimStart(s) == IF s # <<>> /\ Head(s) = " " THEN trimStart(Tail(s)) ELSE s

RECURSIVE trimEnd(_)
trimEnd(s) ==
    IF s # <<>> /\ s[Len(s)] = " " THEN trimEnd(SubSeq(s, 1, Len(s) - 1)) ELSE s

\* String.prototype.trim
trim(s) == trimEnd(trimStart(s))

\* String.prototype.includes
includes(s, q) ==
    \E i \in 0..(Len(s) - Len(q)) : SubSeq(s, i + 1, i + Len(q)) = q

\* Array.prototype.includes on an array of strings
arrayIncludes(arr, x) == \E i \in 1..Len(arr) : arr[i] = x

\* Lexicographic comparison of two sequences of integers: -1, 0 or 1
RECURSIVE CompareKeys(_, _)
CompareKeys(x, y) ==
    IF x = <<>> /\ y = <<>> THEN 0
    ELSE IF x = <<>> THEN -1
    ELSE IF y = <<>> THEN 1
    ELSE IF Head(x) < Head(y) THEN -1
    ELSE IF Head(x) > Head(y) THEN 1
    ELSE CompareKeys(Tail(x), Tail(y))

\* Collation weights of the default locale: the letter first, its case last,
\* lower case before upper case, the space before every letter.
PrimaryWeight(c) == IF c = " " THEN 0 ELSE IF LowerChar(c) = "a" THEN 1 ELSE 2

TertiaryWeight(c) == IF c = LowerChar(c) THEN 0 ELSE 1

\* String.prototype.localeCompare
localeCompare(a, b) ==
    LET pa == [i \in 1..Len(a) |-> PrimaryWeight(a[i])]
        pb == [i \in 1..Len(b) |-> PrimaryWeight(b[i])]
        ta == [i \in 1..Len(a) |-> TertiaryWeight(a[i])]
        tb == [i \in 1..Len(b) |-> TertiaryWeight(b[i])]
        p  == CompareKeys(pa, pb)
    IN  IF p # 0 THEN p ELSE CompareKeys(ta, tb)

\* new Date(d).getTime(): a date is held as its instant
getTime(d) == d

\* Array.prototype.sort: the stable sort ECMAScript specifies.  c[i][j] is
\* what the comparator returns for (s[i], s[j]).  Element i of the input
\* lands behind every element that compares lower and behind every equal
\* element that stood before it.
StableSort(s, c) ==
    LET n == Len(s)
        rank(i) == 1 + Cardinality({ j \in 1..n :
                        \/ c[j][i] < 0
                        \/ (c[j][i] = 0 /\ j < i) })
    IN  [k \in 1..n |-> s[CHOOSE i \in 1..n : rank(i) = k]]

\* the comparator's results over the elements of s
Compared(s, Cmp(_, _)) ==
    [i \in 1..Len(s) |-> [j \in 1..Len(s) |-> Cmp(s[i], s[j])]]

\* Array.prototype.reverse
Reverse(s) == [k \in 1..Len(s) |-> s[Len(s) + 1 - k]]

(***************************************************************************)
(* blogClient.ts                                                           *)
(***************************************************************************)
DATE == <<"date">>
TITLE == <<"title">>
ASC == <<"asc">>
DESC == <<"desc">>

\* BlogPostMeta records the content store can hold
P1 == [slug |-> "p1", title |-> <<"A", "b">>, date |-> 1,
       excerpt |-> <<"b">>, tags |-> << <<"A">> >>]

P2 == [slug |-> "p2", title |-> <<"A", "b">>, date |-> 1,
       excerpt |-> <<"a">>, tags |-> << <<"a">>, <<"B">> >>]

P3 == [slug |-> "p3", title |-> <<"b">>, date |-> 2,
       excerpt |-> <<"a">>, tags |-> << <<"b">>, <<"b">> >>]

P4 == [slug |-> "p4", title |-> <<"a", " ", "B">>, date |-> 3,
       excerpt |-> <<"B">>, tags |-> <<>>]

PostPool == { P1, P2, P3, P4 }

RECURSIVE SeqsUpTo(_, _)
SeqsUpTo(S, n) ==
    IF n = 0 THEN { <<>> }
    ELSE LET shorter == SeqsUpTo(S, n - 1)
         IN  shorter \cup { Append(s, x) : s \in shorter, x \in S }

\* sortPostsByDate leaves the list newest first
IsDateDesc(s) ==
    \A i \in 1..(Len(s) - 1) : getTime(s[i].date) >= getTime(s[i + 1].date)

DistinctSlugs(s) == \A i, j \in 1..Len(s) : s[i].slug = s[j].slug => i = j

\* getAllBlogPosts: one record per file, sorted by sortPostsByDate
PostLists ==
    { s \in SeqsUpTo(PostPool, MaxPosts) : DistinctSlugs(s) /\ IsDateDesc(s) }

\* the lists an exported helper can be handed: one record per slug, any order
AnyOrderLists == { s \in SeqsUpTo(PostPool, MaxPosts) : DistinctSlugs(s) }

\* post.tags of every post, in the order the two forEach loops visit them
RECURSIVE tagOccurrences(_)
tagOccurrences(ps) ==
    IF ps = <<>> THEN <<>> ELSE Head(ps).tags \o tagOccurrences(Tail(ps))

\* getAllTagsFromPosts: tagCounts[tag] grows by one per occurrence;
\* Object.entries lists the keys in the order of their first insertion, and
\* the entries are sorted by count descending, then by tag.localeCompare
getAllTagsFromPosts(ps) ==
    LET occ == tagOccurrences(ps)
        first(i) == \A j \in 1..(i - 1) : occ[j] # occ[i]
        keys == SelectSeq([i \in 1..Len(occ) |-> i], first)
        entries == [k \in 1..Len(keys) |->
                       [tag |-> occ[keys[k]],
                        count |-> Cardinality({ j \in 1..Len(occ) : occ[j] = occ[keys[k]] })]]
        cmp(a, b) == IF b.count - a.count # 0 THEN b.count - a.count
                     ELSE localeCompare(a.tag, b.tag)
    IN  StableSort(entries, Compared(entries, cmp))

\* filterPostsByTag comparing the tags as written (no toLowerCase)
filterPostsByTag_CaseSensitive(ps, tag) ==
    LET keep(post) == \E i \in 1..Len(post.tags) : post.tags[i] = tag
    IN  SelectSeq(ps, keep)

\* filterPostsByTag with post.tags.every in place of post.tags.some
filterPostsByTag_Every(ps, tag) ==
    LET keep(post) == \A i \in 1..Len(post.tags) :
                          toLowerCase(post.tags[i]) = toLowerCase(tag)
    IN  SelectSeq(ps, keep)

filterPostsByTag(ps, tag) ==
    LET keep(post) == \E i \in 1..Len(post.tags) :
                          toLowerCase(post.tags[i]) = toLowerCase(tag)
    IN  SelectSeq(ps, keep)

\* searchPosts matching the fields as written (no toLowerCase)
searchPosts_CaseSensitive(ps, query) ==
    IF trim(query) = EmptyStr THEN ps
    ELSE
      LET titleMatch(post) == includes(post.title, query)
          excerptMatch(post) == includes(post.excerpt, query)
          tagMatch(post) == \E i \in 1..Len(post.tags) : includes(post.tags[i], query)
          keep(post) == titleMatch(post) \/ excerptMatch(post) \/ tagMatch(post)
          cmp(a, b) ==
              IF titleMatch(a) /\ ~titleMatch(b) THEN -1
              ELSE IF ~titleMatch(a) /\ titleMatch(b) THEN 1
              ELSE getTime(b.date) - getTime(a.date)
          kept == SelectSeq(ps, keep)
      IN  StableSort(kept, Compared(kept, cmp))

\* searchPosts without its .sort(...): the filter only
searchPosts_Unranked(ps, query) ==
    IF trim(query) = EmptyStr THEN ps
    ELSE
      LET lowercaseQuery == toLowerCase(query)
          titleMatch(post) == includes(toLowerCase(post.title), lowercaseQuery)
          excerptMatch(post) == includes(toLowerCase(post.excerpt), lowercaseQuery)
          tagMatch(post) == \E i \in 1..Len(post.tags) :
                                includes(toLowerCase(post.tags[i]), lowercaseQuery)
          keep(post) == titleMatch(post) \/ excerptMatch(post) \/ tagMatch(post)
      IN  SelectSeq(ps, keep)

searchPosts(ps, query) ==
    IF trim(query) = EmptyStr THEN ps
    ELSE
      LET lowercaseQuery == toLowerCase(query)
          titleMatch(post) == includes(toLowerCase(post.title), lowercaseQuery)
          excerptMatch(post) == includes(toLowerCase(post.excerpt), lowercaseQuery)
          tagMatch(post) == \E i \in 1..Len(post.tags) :
                                includes(toLowerCase(post.tags[i]), lowercaseQuery)
          keep(post) == titleMatch(post) \/ excerptMatch(post) \/ tagMatch(post)
          cmp(a, b) ==
              IF titleMatch(a) /\ ~titleMatch(b) THEN -1
              ELSE IF ~titleMatch(a) /\ titleMatch(b) THEN 1
              ELSE getTime(b.date) - getTime(a.date)
          kept == SelectSeq(ps, keep)
      IN  StableSort(kept, Compared(kept, cmp))

\* sortPosts without `order === 'desc' ? sorted.reverse() : sorted`
sortPosts_NoReverse(ps, by, order) ==
    LET cmp(a, b) ==
            IF by = DATE THEN getTime(a.date) - getTime(b.date)
            ELSE IF by = TITLE THEN localeCompare(a.title, b.title)
            ELSE 0
    IN  StableSort(ps, Compared(ps, cmp))

\* sortPosts whose comparator always returns 0: the list keeps the order the
\* search ranking gave it
sortPosts_KeepRank(ps, by, order) ==
    IF order = DESC THEN Reverse(ps) ELSE ps

sortPosts(ps, by, order) ==
    LET cmp(a, b) ==
            IF by = DATE THEN getTime(a.date) - getTime(b.date)
            ELSE IF by = TITLE THEN localeCompare(a.title, b.title)
            ELSE 0
        sorted == StableSort(ps, Compared(ps, cmp))
    IN  IF order = DESC THEN Reverse(sorted) ELSE sorted

\* the tag stage assigning from the list the search left, not from its own
\* result: only the tag selected last narrows the list
applyTagFilters_LastOnly(ps, tags) ==
    IF tags = <<>> THEN ps ELSE filterPostsByTag(ps, tags[Len(tags)])

RECURSIVE applyTagFilters(_, _)
applyTagFilters(ps, tags) ==
    IF tags = <<>> THEN ps
    ELSE applyTagFilters(filterPostsByTag(ps, Head(tags)), Tail(tags))

\* filteredPosts computed from the whole store instead of the `posts` prop
filteredPostsOf_StaleList(ps, query, tags, by, order) ==
    LET store == <<P4, P3, P1, P2>>
        searched == IF trim(query) # EmptyStr THEN searchPosts(store, query) ELSE store
    IN  sortPosts(applyTagFilters(searched, tags), by, order)

\* BlogClient.filteredPosts (useMemo)
filteredPostsOf(ps, query, tags, by, order) ==
    LET searched == IF trim(query) # EmptyStr THEN searchPosts(ps, query) ELSE ps
    IN  sortPosts(applyTagFilters(searched, tags), by, order)

filteredPosts == filteredPostsOf(posts, searchQuery, selectedTags, sortBy, sortOrder)

\* the tags a chip exists for: TagFilter chips and the chips on the post cards
RECURSIVE tagSet(_)
tagSet(ps) ==
    IF ps = <<>> THEN {}
    ELSE { Head(ps).tags[i] : i \in 1..Len(Head(ps).tags) } \cup tagSet(Tail(ps))

(***************************************************************************)
(* URLSearchParams: a list of <<name, value>> pairs, the value in its      *)
(* application/x-www-form-urlencoded form                                  *)
(***************************************************************************)
FormEncodeChar(c) == IF c = " " THEN "+" ELSE c
FormDecodeChar(c) == IF c = "+" THEN " " ELSE c
FormEncode(s) == [i \in 1..Len(s) |-> FormEncodeChar(s[i])]
FormDecode(v) == [i \in 1..Len(v) |-> FormDecodeChar(v[i])]

Bare == <<>>

\* searchParams.getAll(name)
getAll(params, name) ==
    LET named(p) == p[1] = name
        found == SelectSeq(params, named)
    IN  [i \in 1..Len(found) |-> FormDecode(found[i][2])]

\* searchParams.get(name) || dflt
getOr(params, name, dflt) ==
    LET all == getAll(params, name)
    IN  IF all = <<>> \/ all[1] = EmptyStr THEN dflt ELSE all[1]

\* the URL-init effect's reading of the query string
DecodeURL(params) ==
    [searchQuery  |-> getOr(params, "search", EmptyStr),
     selectedTags |-> getAll(params, "tag"),
     sortBy       |-> getOr(params, "sort", DATE),
     sortOrder    |-> getOr(params, "order", DESC)]

\* updateURL setting `search` to the raw text and writing sort and order even
\* when they are the defaults
updateURL_Verbose(search, tags, by, order) ==
    LET p1 == IF search # EmptyStr
              THEN << <<"search", FormEncode(search)>> >> ELSE <<>>
        p2 == [i \in 1..Len(tags) |-> <<"tag", FormEncode(tags[i])>>]
        p3 == << <<"sort", FormEncode(by)>> >>
        p4 == << <<"order", FormEncode(order)>> >>
    IN  p1 \o p2 \o p3 \o p4

\* updateURL: the query string it hands to router.push
updateURL(search, tags, by, order) ==
    LET p1 == IF search # EmptyStr /\ trim(search) # EmptyStr
              THEN << <<"search", FormEncode(trim(search))>> >> ELSE <<>>
        p2 == [i \in 1..Len(tags) |-> <<"tag", FormEncode(tags[i])>>]
        p3 == IF by # EmptyStr /\ by # DATE
              THEN << <<"sort", FormEncode(by)>> >> ELSE <<>>
        p4 == IF order # EmptyStr /\ order # DESC
              THEN << <<"order", FormEncode(order)>> >> ELSE <<>>
    IN  p1 \o p2 \o p3 \o p4

FilterState ==
    [searchQuery |-> searchQuery, selectedTags |-> selectedTags,
     sortBy |-> sortBy, sortOrder |-> sortOrder]

DefaultState ==
    [searchQuery |-> EmptyStr, selectedTags |-> <<>>,
     sortBy |-> DATE, sortOrder |-> DESC]

\* hasActiveFilters without its two sort conditions
hasActiveFilters_NoSort ==
    \/ trim(searchQuery) # EmptyStr
    \/ Len(selectedTags) > 0

\* BlogClient.hasActiveFilters, and the same test in ActiveFilters
hasActiveFilters ==
    \/ trim(searchQuery) # EmptyStr
    \/ Len(selectedTags) > 0
    \/ sortBy # DATE
    \/ sortOrder # DESC

(***************************************************************************)
(* Inputs of the model                                                     *)
(***************************************************************************)
BOGUS == <<"bogus">>

\* what the visitor types into the search box
RawInputs == { EmptyStr, <<"a">>, <<"a", " ">> }

\* query strings of links, bookmarks and history entries
ExternalQueries ==
    { Bare,
      << <<"search", <<"+", "a">>>> >>,
      << <<"tag", <<"z">>>>, <<"tag", <<"z">>>> >>,
      << <<"sort", BOGUS>>, <<"order", BOGUS>> >> }

\* article lists of the controller's runs
ControllerPosts == { <<P3, P1>> }

(***************************************************************************)
(* SearchBar: the debounce effect and the sync effect                      *)
(***************************************************************************)
\* the debounce effect without its cleanup function
Cleanup_Missing(ts) == ts

\* the effect's cleanup: clearTimeout of the timer the last run armed
Cleanup(ts) == {}

\* the debounce effect: a timer holding inputValue and the onSearchChange
\* (handleSearchChange) closure of the render that ran the effect
DebounceEffect(ts, value, st) ==
    Cleanup(ts) \cup { [value |-> value, tags |-> st.selectedTags,
                        sortBy |-> st.sortBy, sortOrder |-> st.sortOrder] }

\* The renders an event causes, and their effects.  ts: the timers left by
\* the handler; iv: inputValue as the handler left it; ivChanged: the handler
\* changed inputValue; hscChanged: handleSearchChange got a new identity (a
\* new selectedTags array, another sortBy or sortOrder); st: the new
\* FilterState.  The sync effect copies a changed searchQuery into inputValue,
\* and the debounce effect runs again whenever inputValue or onSearchChange
\* changed.
Render(ts, iv, ivChanged, hscChanged, st) ==
    LET sqChanged == st.searchQuery # searchQuery
        iv2 == IF sqChanged THEN st.searchQuery ELSE iv
        rearm == ivChanged \/ hscChanged \/ iv2 # iv
    IN  [inputValue |-> iv2,
         timers |-> IF rearm THEN DebounceEffect(ts, iv2, st) ELSE ts]

\* router.push(newUrl): the App Router starts the navigation at once and
\* discards a navigation that is still pending, so that only the URL pushed
\* last is ever shown
Push(q) == << q >>

Op(name) == [op |-> name, after |-> "-", moved |-> FALSE]

\* a user input ends the run of clear-all invocations
UserInput ==
    /\ clearPhase' = "none"
    /\ clearSnap' = <<>>

\* a timer or a delivered navigation after clear-all; neither is an input
Settling ==
    /\ clearPhase' = IF clearPhase = "none" THEN "none" ELSE "settling"
    /\ clearSnap' = <<>>
    /\ UNCHANGED typed

\* the raw input typed last stands until the visitor clears the search, removes
\* a filter or leaves for another URL; toggling a tag and changing the sort
\* leave it alone
Typed(v) == typed' = << v >>

TypedKept == UNCHANGED typed

TypedOver == typed' = <<>>

\* the new BlogClient state and what the render makes of SearchBar
Commit(st, r) ==
    /\ searchQuery' = st.searchQuery
    /\ selectedTags' = st.selectedTags
    /\ sortBy' = st.sortBy
    /\ sortOrder' = st.sortOrder
    /\ inputValue' = r.inputValue
    /\ timers' = r.timers

(***************************************************************************)
(* The controller's events                                                 *)
(***************************************************************************)
\* SearchBar onChange: setInputValue(e.target.value)
TypeInput(v) ==
    /\ v # inputValue
    /\ Commit(FilterState, Render(timers, v, TRUE, FALSE, FilterState))
    /\ lastOp' = Op("type")
    /\ UserInput
    /\ Typed(v)
    /\ UNCHANGED <<posts, url, navQueue, pipeVars>>

\* a debounce timer fires: onSearchChange(inputValue) of its closure, that is
\* handleSearchChange: setSearchQuery(query); updateURL(...)
TimerFire(t) ==
    /\ t \in timers
    /\ LET st == [FilterState EXCEPT !.searchQuery = t.value]
       IN  Commit(st, Render(timers \ {t}, inputValue, FALSE, FALSE, st))
    /\ navQueue' = Push(updateURL(t.value, t.tags, t.sortBy, t.sortOrder))
    /\ lastOp' = [op |-> "timerFire",
                after |-> IF lastOp.op \in {"pageLoad", "urlChanged"}
                          THEN "urlChanged" ELSE "-",
                moved |-> FALSE]
    /\ Settling
    /\ UNCHANGED <<posts, url, pipeVars>>

\* SearchBar handleClear (the X in the input, shown while inputValue is not
\* empty): setInputValue(''); onSearchChange('')
SearchBarClear ==
    /\ inputValue # EmptyStr
    /\ LET st == [FilterState EXCEPT !.searchQuery = EmptyStr]
       IN  Commit(st, Render(timers, EmptyStr, TRUE, FALSE, st))
    /\ navQueue' = Push(updateURL(EmptyStr, selectedTags, sortBy, sortOrder))
    /\ lastOp' = Op("searchBarClear")
    /\ UserInput
    /\ TypedOver
    /\ UNCHANGED <<posts, url, pipeVars>>

\* handleTagToggle leaving the URL to the debounce timer
handleTagToggle_NoPush(tag) ==
    /\ LET newTags == IF arrayIncludes(selectedTags, tag)
                      THEN LET other(t) == t # tag IN SelectSeq(selectedTags, other)
                      ELSE Append(selectedTags, tag)
           st == [FilterState EXCEPT !.selectedTags = newTags]
       IN  Commit(st, Render(timers, inputValue, FALSE, TRUE, st))
    /\ lastOp' = Op("toggleTag")
    /\ UserInput
    /\ TypedKept
    /\ UNCHANGED <<posts, url, navQueue, pipeVars>>

\* handleTagToggle, from a TagFilter chip or a chip of a post card
handleTagToggle(tag) ==
    /\ LET newTags == IF arrayIncludes(selectedTags, tag)
                      THEN LET other(t) == t # tag IN SelectSeq(selectedTags, other)
                      ELSE Append(selectedTags, tag)
           st == [FilterState EXCEPT !.selectedTags = newTags]
       IN  /\ Commit(st, Render(timers, inputValue, FALSE, TRUE, st))
           /\ navQueue' = Push(updateURL(searchQuery, newTags, sortBy, sortOrder))
    /\ lastOp' = Op("toggleTag")
    /\ UserInput
    /\ TypedKept
    /\ UNCHANGED <<posts, url, pipeVars>>

\* handleTagRemove, from the tag's chip in ActiveFilters
handleTagRemove(tag) ==
    /\ arrayIncludes(selectedTags, tag)
    /\ LET other(t) == t # tag
           newTags == SelectSeq(selectedTags, other)
           st == [FilterState EXCEPT !.selectedTags = newTags]
       IN  /\ Commit(st, Render(timers, inputValue, FALSE, TRUE, st))
           /\ navQueue' = Push(updateURL(searchQuery, newTags, sortBy, sortOrder))
    /\ lastOp' = Op("removeTag")
    /\ UserInput
    /\ TypedOver
    /\ UNCHANGED <<posts, url, pipeVars>>

\* handleSortChange that also empties the tag selection
handleSortChange_DropTags(newSortBy, newSortOrder) ==
    /\ <<newSortBy, newSortOrder>> # <<sortBy, sortOrder>>
    /\ LET st == [FilterState EXCEPT !.sortBy = newSortBy, !.sortOrder = newSortOrder,
                                     !.selectedTags = <<>>]
       IN  Commit(st, Render(timers, inputValue, FALSE, TRUE, st))
    /\ navQueue' = Push(updateURL(searchQuery, <<>>, newSortBy, newSortOrder))
    /\ lastOp' = Op("changeSort")
    /\ UserInput
    /\ TypedKept
    /\ UNCHANGED <<posts, url, pipeVars>>

\* handleSortChange, from SortDropdown (onChange: another option was chosen)
handleSortChange(newSortBy, newSortOrder) ==
    /\ <<newSortBy, newSortOrder>> # <<sortBy, sortOrder>>
    /\ LET st == [FilterState EXCEPT !.sortBy = newSortBy, !.sortOrder = newSortOrder]
       IN  Commit(st, Render(timers, inputValue, FALSE, TRUE, st))
    /\ navQueue' = Push(updateURL(searchQuery, selectedTags, newSortBy, newSortOrder))
    /\ lastOp' = Op("changeSort")
    /\ UserInput
    /\ TypedKept
    /\ UNCHANGED <<posts, url, pipeVars>>

\* handleSearchClear, from the search chip in ActiveFilters
handleSearchClear ==
    /\ trim(searchQuery) # EmptyStr
    /\ LET st == [FilterState EXCEPT !.searchQuery = EmptyStr]
       IN  Commit(st, Render(timers, inputValue, FALSE, FALSE, st))
    /\ navQueue' = Push(updateURL(EmptyStr, selectedTags, sortBy, sortOrder))
    /\ lastOp' = Op("removeSearch")
    /\ UserInput
    /\ TypedOver
    /\ UNCHANGED <<posts, url, pipeVars>>

\* history of clear-all: the count of invocations in a row, and the
\* FilterState and pushed URL the first of them left
ClearAllHistory ==
    /\ lastOp' = Op("clearAll")
    /\ clearPhase' = IF clearPhase \in {"once", "twice"} THEN "twice" ELSE "once"
    /\ clearSnap' = IF clearPhase \in {"once", "twice"} THEN clearSnap
                    ELSE << [state |-> FilterState', pushed |-> navQueue'] >>
    /\ TypedOver

\* handleClearAll without setSortBy('date') and setSortOrder('desc')
handleClearAll_KeepSort ==
    /\ LET st == [DefaultState EXCEPT !.sortBy = sortBy, !.sortOrder = sortOrder]
       IN  Commit(st, Render(timers, inputValue, FALSE, TRUE, st))
    /\ navQueue' = Push(Bare)
    /\ ClearAllHistory
    /\ UNCHANGED <<posts, url, pipeVars>>

\* handleClearAll pushing updateURL of the state its closure holds
handleClearAll_PushStale ==
    /\ Commit(DefaultState,
              Render(timers, inputValue, FALSE, TRUE, DefaultState))
    /\ navQueue' = Push(updateURL(searchQuery, selectedTags, sortBy, sortOrder))
    /\ ClearAllHistory
    /\ UNCHANGED <<posts, url, pipeVars>>

\* handleClearAll
handleClearAll ==
    /\ Commit(DefaultState,
              Render(timers, inputValue, FALSE, TRUE, DefaultState))
    /\ navQueue' = Push(Bare)
    /\ ClearAllHistory
    /\ UNCHANGED <<posts, url, pipeVars>>

\* the Clear All button, which ActiveFilters renders only with an active filter
ClearAllClick ==
    /\ hasActiveFilters
    /\ handleClearAll

\* ResultsCount.getResultsText: which of its three texts it returns
getResultsText(filteredCount, totalCount, active) ==
    IF filteredCount = 0 THEN "No posts found"
    ELSE IF ~active \/ filteredCount = totalCount THEN "Showing all"
    ELSE "Showing N of M"

\* the URL-init effect, run when useSearchParams() returns new params
URLInitEffect(params) ==
    LET st == DecodeURL(params)
    IN  Commit(st, Render(timers, inputValue, FALSE, TRUE, st))

\* the navigation of an earlier router.push arrives; a push of the URL already
\* shown leaves useSearchParams() unchanged
Deliver ==
    /\ navQueue # <<>>
    /\ navQueue' = Tail(navQueue)
    /\ url' = Head(navQueue)
    /\ IF Head(navQueue) # url
       THEN URLInitEffect(Head(navQueue))
       ELSE UNCHANGED <<searchQuery, selectedTags, sortBy, sortOrder,
                        inputValue, timers>>
    /\ lastOp' = [op |-> "deliver",
                after |-> IF lastOp.op = "timerFire" THEN "timerFire" ELSE "-",
                moved |-> FilterState' # FilterState]
    /\ Settling
    /\ UNCHANGED <<posts, pipeVars>>

\* back/forward or a followed link shows another query string; it too
\* discards a pending navigation
UrlChanged(q) ==
    /\ q # url
    /\ url' = q
    /\ navQueue' = <<>>
    /\ URLInitEffect(q)
    /\ lastOp' = Op("urlChanged")
    /\ UserInput
    /\ TypedOver
    /\ UNCHANGED <<posts, pipeVars>>

PipeOff == [at |-> "off", i |-> 0]

\* page load: mount with the defaults, then the URL-init effect
Init ==
    /\ posts \in ControllerPosts
    /\ url \in ExternalQueries
    /\ LET st == DecodeURL(url)
       IN  /\ searchQuery = st.searchQuery
           /\ selectedTags = st.selectedTags
           /\ sortBy = st.sortBy
           /\ sortOrder = st.sortOrder
           /\ inputValue = st.searchQuery
           /\ timers = DebounceEffect({}, st.searchQuery, st)
    /\ navQueue = <<>>
    /\ lastOp = Op("pageLoad")
    /\ clearPhase = "none"
    /\ clearSnap = <<>>
    /\ typed = <<>>
    /\ pc = PipeOff
    /\ work = <<>>
    /\ stageIn = <<>>

SortOptions == { DATE, TITLE }
SortOrders == { ASC, DESC }

Next ==
    \/ \E v \in RawInputs : TypeInput(v)
    \/ \E t \in timers : TimerFire(t)
    \/ SearchBarClear
    \/ \E tag \in tagSet(posts) : handleTagToggle(tag)
    \/ \E i \in 1..Len(selectedTags) : handleTagRemove(selectedTags[i])
    \/ \E by \in SortOptions, order \in SortOrders : handleSortChange(by, order)
    \/ handleSearchClear
    \/ ClearAllClick
    \/ Deliver
    \/ \E q \in ExternalQueries : UrlChanged(q)

Spec == Init /\ [][Next]_vars

\* the handlers as an API: handleClearAll may also be called while the
\* Clear All button is not rendered
NextApi ==
    \/ Next
    \/ handleClearAll

SpecApi == Init /\ [][NextApi]_vars

(***************************************************************************)
(* One evaluation of BlogClient.filteredPosts, stage by stage, over every  *)
(* article list and FilterState drawn                                      *)
(***************************************************************************)
PipeQueries == { EmptyStr, <<" ">>, <<"a">>, <<"b">>, <<"a", " ">> }

PipeTags == { <<"A">>, <<"a">>, <<"b">> }

PipeAt(at, i) == [at |-> at, i |-> i]

InitPipe ==
    /\ posts \in PostLists
    /\ searchQuery \in PipeQueries
    /\ selectedTags \in SeqsUpTo(PipeTags, MaxSelected)
                        \cup { DecodeURL(q).selectedTags : q \in ExternalQueries }
    /\ sortBy \in SortOptions \cup { BOGUS }
    /\ sortOrder \in SortOrders \cup { BOGUS }
    /\ inputValue = searchQuery
    /\ timers = {}
    /\ url = Bare
    /\ navQueue = <<>>
    /\ lastOp = Op("pipeline")
    /\ clearPhase = "none"
    /\ clearSnap = <<>>
    /\ typed = <<>>
    /\ pc = PipeAt("start", 0)
    /\ work = <<>>
    /\ stageIn = <<>>

\* let filteredPosts = [...posts]
PipeCopy ==
    /\ pc.at = "start"
    /\ work' = posts
    /\ stageIn' = posts
    /\ pc' = PipeAt("search", 0)
    /\ UNCHANGED <<posts, ctlVars>>

\* if (searchQuery.trim()) filteredPosts = searchPosts(filteredPosts, searchQuery)
PipeSearch ==
    /\ pc.at = "search"
    /\ stageIn' = work
    /\ work' = IF trim(searchQuery) # EmptyStr
               THEN searchPosts(work, searchQuery) ELSE work
    /\ pc' = PipeAt("tags", 1)
    /\ UNCHANGED <<posts, ctlVars>>

\* selectedTags.forEach(tag => filteredPosts = filterPostsByTag(filteredPosts, tag))
PipeTag ==
    /\ pc.at = "tags"
    /\ pc.i <= Len(selectedTags)
    /\ stageIn' = work
    /\ work' = filterPostsByTag(work, selectedTags[pc.i])
    /\ pc' = PipeAt("tags", pc.i + 1)
    /\ UNCHANGED <<posts, ctlVars>>

\* filteredPosts = sortPosts(filteredPosts, sortBy, sortOrder)
PipeSort ==
    /\ pc.at = "tags"
    /\ pc.i > Len(selectedTags)
    /\ stageIn' = work
    /\ work' = sortPosts(work, sortBy, sortOrder)
    /\ pc' = PipeAt("done", 0)
    /\ UNCHANGED <<posts, ctlVars>>

NextPipe == PipeCopy \/ PipeSearch \/ PipeTag \/ PipeSort

SpecPipe == InitPipe /\ [][NextPipe]_vars

\* the staged evaluation ends in what filteredPosts computes
PipeAgrees == pc.at = "done" => work = filteredPosts

(***************************************************************************)
(* The exported helpers and the two pure parts of BlogClient, each called   *)
(* once on every article list (in any order) and FilterState drawn          *)
(***************************************************************************)
InitFn ==
    /\ posts \in AnyOrderLists
    /\ searchQuery \in PipeQueries
    /\ selectedTags \in SeqsUpTo(PipeTags, MaxSelected)
    /\ sortBy \in SortOptions \cup { BOGUS }
    /\ sortOrder \in SortOrders \cup { BOGUS }
    /\ inputValue = searchQuery
    /\ timers = {}
    /\ url = Bare
    /\ navQueue = <<>>
    /\ lastOp = Op("call")
    /\ clearPhase = "none"
    /\ clearSnap = <<>>
    /\ typed = <<>>
    /\ pc = PipeAt("call", 0)
    /\ work = <<>>
    /\ stageIn = <<>>

\* searchPosts(posts, searchQuery)
CallSearchPosts ==
    /\ pc.at = "call"
    /\ work' = searchPosts(posts, searchQuery)
    /\ pc' = PipeAt("searchPosts", 0)
    /\ UNCHANGED <<posts, ctlVars, stageIn>>

\* getAllTagsFromPosts(posts)
CallGetAllTagsFromPosts ==
    /\ pc.at = "call"
    /\ work' = getAllTagsFromPosts(posts)
    /\ pc' = PipeAt("getAllTagsFromPosts", 0)
    /\ UNCHANGED <<posts, ctlVars, stageIn>>

\* the filteredPosts memo, evaluated at once
CallFilteredPosts ==
    /\ pc.at = "call"
    /\ work' = filteredPosts
    /\ pc' = PipeAt("filteredPosts", 0)
    /\ UNCHANGED <<posts, ctlVars, stageIn>>

\* updateURL of the FilterState: the query string goes to router.push
CallUpdateURL ==
    /\ pc.at = "call"
    /\ navQueue' = Push(updateURL(searchQuery, selectedTags, sortBy, sortOrder))
    /\ pc' = PipeAt("updateURL", 0)
    /\ UNCHANGED <<posts, searchQuery, selectedTags, sortBy, sortOrder, inputValue,
                   timers, url, lastOp, clearPhase, clearSnap, typed, work, stageIn>>

NextFn ==
    \/ CallSearchPosts
    \/ CallGetAllTagsFromPosts
    \/ CallFilteredPosts
    \/ CallUpdateURL

SpecFn == InitFn /\ [][NextFn]_vars

(***************************************************************************)
(* Claims                                                                  *)
(***************************************************************************)
InList(s, slug) == \E k \in 1..Len(s) : s[k].slug = slug

PosIn(s, slug) == CHOOSE k \in 1..Len(s) : s[k].slug = slug

\* C1: decoding the query string that encodes a reachable FilterState
\* yields that FilterState again, in all four fields.
C1_RoundTrip ==
    DecodeURL(updateURL(searchQuery, selectedTags, sortBy, sortOrder)) = FilterState

SortKey(p, by) == IF by = DATE THEN getTime(p.date) ELSE p.title

\* C2: two articles with equal sort keys leave sortPosts in the relative
\* order they had in its input, for asc and for desc alike.
C2_TiesKeepInputOrder ==
    (pc.at = "done" /\ sortBy \in SortOptions /\ sortOrder \in SortOrders) =>
        \A i, j \in 1..Len(stageIn) :
            (i < j /\ SortKey(stageIn[i], sortBy) = SortKey(stageIn[j], sortBy))
                => PosIn(work, stageIn[i].slug) < PosIn(work, stageIn[j].slug)

SearchMatches(p) ==
    \/ trim(searchQuery) = EmptyStr
    \/ includes(toLowerCase(p.title), toLowerCase(searchQuery))
    \/ includes(toLowerCase(p.excerpt), toLowerCase(searchQuery))
    \/ \E i \in 1..Len(p.tags) :
           includes(toLowerCase(p.tags[i]), toLowerCase(searchQuery))

CarriesTag(p, tag) ==
    \E i \in 1..Len(p.tags) : toLowerCase(p.tags[i]) = toLowerCase(tag)

CarriesAll(p) == \A i \in 1..Len(selectedTags) : CarriesTag(p, selectedTags[i])

\* C3: an article that matches the search is visible if and only if it
\* carries every selected tag, compared case-insensitively.
C3_AndSemantics ==
    pc.at = "done" =>
        \A k \in 1..Len(posts) :
            SearchMatches(posts[k]) =>
                (InList(work, posts[k].slug) <=> CarriesAll(posts[k]))

\* two different tags are selected; one article carries both and is visible,
\* another carries only one of them and is not
C3_Witness ==
    /\ pc.at = "done"
    /\ Len(selectedTags) = 2
    /\ toLowerCase(selectedTags[1]) # toLowerCase(selectedTags[2])
    /\ \E a, b \in 1..Len(posts) :
          /\ SearchMatches(posts[a]) /\ SearchMatches(posts[b])
          /\ CarriesAll(posts[a]) /\ InList(work, posts[a].slug)
          /\ CarriesTag(posts[b], selectedTags[1])
          /\ ~CarriesTag(posts[b], selectedTags[2])
          /\ ~InList(work, posts[b].slug)

\* C4: every article of the VisibleSet is an article of the full list, by id.
C4_Subset ==
    \A i \in 1..Len(filteredPosts) : InList(posts, filteredPosts[i].slug)

\* an evaluation that kept some articles and dropped others
C4_Witness ==
    /\ pc.at = "done"
    /\ Len(work) > 0
    /\ Len(work) < Len(posts)

\* C5: sortBy is always date or title and sortOrder always asc or desc; a
\* query string with another sort or order value decodes to the defaults.
C5_SortAlwaysValid ==
    /\ sortBy \in SortOptions
    /\ sortOrder \in SortOrders

\* C6: a URL-changed event (page load included) causes no URL push, not even
\* through the debounce timer it armed.  (Every fired timer pushes a URL, and
\* a timer that fires right after the event is the one the event armed.)
C6_NoPushAfterUrlChange ==
    ~(lastOp.op = "timerFire" /\ lastOp.after = "urlChanged" /\ navQueue # <<>>)

SameArticles(s, t) ==
    /\ Len(s) = Len(t)
    /\ \A i \in 1..Len(t) : InList(s, t[i].slug)

\* C8: clear all, invoked in a non-default state, leaves the default
\* FilterState, pushes the bare URL, and the VisibleSet is the full list,
\* newest first.
C8_ClearAll ==
    lastOp.op = "clearAll" =>
        /\ FilterState = DefaultState
        /\ navQueue = << Bare >>
        /\ SameArticles(filteredPosts, posts)
        /\ IsDateDesc(filteredPosts)

\* the Clear All button was clicked
C8_Witness ==
    /\ lastOp.op = "clearAll"
    /\ clearPhase = "once"
    /\ url # Bare

\* C9: after clear all and no further user input, once no timer is armed and
\* no navigation is pending, the URL is the bare /blog, the search input is
\* empty and no filter is active.
C9_ClearAllLasting ==
    (clearPhase # "none" /\ timers = {} /\ navQueue = <<>>) =>
        /\ url = Bare
        /\ inputValue = EmptyStr
        /\ ~hasActiveFilters

\* C10: a second clear all in a row leaves the FilterState and the pushed URL
\* the first one left.
C10_ClearAllIdempotent ==
    (lastOp.op = "clearAll" /\ clearPhase = "twice") =>
        clearSnap = << [state |-> FilterState, pushed |-> navQueue] >>

\* clear all was invoked twice in a row
C10_Witness ==
    /\ lastOp.op = "clearAll"
    /\ clearPhase = "twice"
    /\ Len(clearSnap) = 1

TitleHas(p) == includes(toLowerCase(p.title), toLowerCase(searchQuery))

\* C11: for a query that is not blank, the result of searchPosts holds the
\* matching articles, and every article whose title contains the query
\* stands before every article whose title does not.
C11_TitleMatchFirst ==
    (pc.at = "searchPosts" /\ trim(searchQuery) # EmptyStr) =>
        /\ \A k \in 1..Len(posts) :
               SearchMatches(posts[k]) <=> InList(work, posts[k].slug)
        /\ \A i, j \in 1..Len(work) :
               (TitleHas(work[i]) /\ ~TitleHas(work[j])) => i < j

\* the input held an excerpt-only match in front of a title match, and the
\* result holds them the other way round
C11_Witness ==
    /\ pc.at = "searchPosts"
    /\ \E i, j \in 1..Len(posts) :
          /\ i < j
          /\ SearchMatches(posts[i]) /\ ~TitleHas(posts[i])
          /\ TitleHas(posts[j])
          /\ PosIn(work, posts[j].slug) < PosIn(work, posts[i].slug)

\* C12: two matching articles of the same group (both title matches, or both
\* not) leave searchPosts in the relative order they had in its input,
\* whatever that order was.
C12_StableWithinGroups ==
    (pc.at = "searchPosts" /\ trim(searchQuery) # EmptyStr) =>
        \A i, j \in 1..Len(posts) :
            ( /\ i < j
              /\ SearchMatches(posts[i]) /\ SearchMatches(posts[j])
              /\ TitleHas(posts[i]) = TitleHas(posts[j]) )
                => PosIn(work, posts[i].slug) < PosIn(work, posts[j].slug)

\* C13: with the default FilterState the pipeline returns every article of
\* the list exactly once, newest first.
C13_IdentityOnEmptyFilters ==
    (pc.at = "filteredPosts" /\ FilterState = DefaultState) =>
        /\ Len(work) = Len(posts)
        /\ \A k \in 1..Len(posts) : InList(work, posts[k].slug)
        /\ IsDateDesc(work)

\* the default state was evaluated on a list that was not newest first
C13_Witness ==
    /\ pc.at = "filteredPosts"
    /\ FilterState = DefaultState
    /\ Len(posts) >= 2
    /\ ~IsDateDesc(posts)
    /\ work # posts

SyncOps == { "toggleTag", "changeSort", "removeTag", "removeSearch", "clearAll" }

\* C14: toggle tag, change sort, remove a single filter and clear all change
\* the FilterState and push the URL that encodes the new FilterState in the
\* very step that handles them, with or without a debounce timer armed.
C14_SynchronousOps ==
    [][ lastOp'.op \in SyncOps =>
            /\ FilterState' # FilterState
            /\ navQueue' = << updateURL(searchQuery', selectedTags',
                                        sortBy', sortOrder') >> ]_vars

\* a tag was toggled while a typed query was waiting for its timer
C14_Witness ==
    /\ lastOp.op = "toggleTag"
    /\ typed # <<>>
    /\ inputValue # searchQuery
    /\ timers # {}
    /\ navQueue # <<>>

\* C15: loading the URL the controller pushed for the FilterState shown gives
\* a FilterState with the same VisibleSet and the same text in the search
\* input (taken where the input shows the committed query).
C15_SharedUrlRestoresView ==
    (navQueue # <<>> /\ inputValue = searchQuery) =>
        LET loaded == DecodeURL(Head(navQueue))
        IN  /\ filteredPostsOf(posts, loaded.searchQuery, loaded.selectedTags,
                               loaded.sortBy, loaded.sortOrder) = filteredPosts
            /\ loaded.searchQuery = inputValue

C17_SearchCommitted ==
    (typed # <<>> /\ timers = {} /\ navQueue = <<>>) =>
        /\ searchQuery = typed[1]
        /\ getOr(url, "search", EmptyStr) = typed[1]

\* C18: no string occurs twice in selectedTags.
C18_NoDuplicateTags ==
    \A i, j \in 1..Len(selectedTags) : selectedTags[i] = selectedTags[j] => i = j

KeyCompare(a, b) ==
    IF sortBy = DATE THEN getTime(a.date) - getTime(b.date)
    ELSE localeCompare(a.title, b.title)

\* C19: the VisibleSet is ordered by the chosen key: for asc the key never
\* decreases along the list, for desc it never increases, whatever the search
\* ranking and the tag filters did before.
C19_SortDecidesOrder ==
    (pc.at = "filteredPosts" /\ sortBy \in SortOptions /\ sortOrder \in SortOrders) =>
        \A i \in 1..(Len(work) - 1) :
            IF sortOrder = ASC THEN KeyCompare(work[i], work[i + 1]) <= 0
            ELSE KeyCompare(work[i], work[i + 1]) >= 0

\* the search ranking left two articles in another order than the sort did
C19_Witness ==
    /\ pc.at = "filteredPosts"
    /\ trim(searchQuery) # EmptyStr
    /\ sortBy \in SortOptions /\ sortOrder \in SortOrders
    /\ Len(work) >= 2
    /\ applyTagFilters(searchPosts(posts, searchQuery), selectedTags) # work

\* C20: the tag index has one entry per distinct tag, and the count of an
\* entry is the number of articles that carry the tag (an article that lists
\* it twice counts once), which is at least 1.
C20_TagCountsCountArticles ==
    pc.at = "getAllTagsFromPosts" =>
        /\ \A i, j \in 1..Len(work) : work[i].tag = work[j].tag => i = j
        /\ { work[i].tag : i \in 1..Len(work) } = tagSet(posts)
        /\ \A i \in 1..Len(work) :
               /\ work[i].count >= 1
               /\ work[i].count =
                      Cardinality({ k \in 1..Len(posts) :
                          \E t \in 1..Len(posts[k].tags) :
                              posts[k].tags[t] = work[i].tag })

\* the UTF-16 code unit of a character
CodeUnit(c) ==
    IF c = " " THEN 32 ELSE IF c = "A" THEN 65 ELSE IF c = "B" THEN 66
    ELSE IF c = "a" THEN 97 ELSE IF c = "b" THEN 98 ELSE 122

\* ordinal comparison of two strings, code unit by code unit
OrdinalCompare(a, b) ==
    CompareKeys([i \in 1..Len(a) |-> CodeUnit(a[i])],
                [i \in 1..Len(b) |-> CodeUnit(b[i])])

\* C21: the tag index is sorted by count descending, and entries of equal
\* count by tag ascending in ordinal (code unit) order, so that an upper-case
\* tag stands before a lower-case tag of equal count.
C21_TagIndexOrder ==
    pc.at = "getAllTagsFromPosts" =>
        \A i \in 1..(Len(work) - 1) :
            \/ work[i].count > work[i + 1].count
            \/ /\ work[i].count = work[i + 1].count
               /\ OrdinalCompare(work[i].tag, work[i + 1].tag) < 0

FieldHas(p, q) ==
    \/ includes(toLowerCase(p.title), toLowerCase(q))
    \/ includes(toLowerCase(p.excerpt), toLowerCase(q))
    \/ \E i \in 1..Len(p.tags) : includes(toLowerCase(p.tags[i]), toLowerCase(q))

\* C22: for a blank query searchPosts returns its input list as it is;
\* otherwise an article is in the result (once) if and only if its title, its
\* excerpt or one of its tags contains the query, compared case-insensitively.
C22_SearchInclusion ==
    pc.at = "searchPosts" =>
        IF trim(searchQuery) = EmptyStr THEN work = posts
        ELSE /\ \A k \in 1..Len(posts) :
                    InList(work, posts[k].slug) <=> FieldHas(posts[k], searchQuery)
             /\ \A i \in 1..Len(work) : InList(posts, work[i].slug)
             /\ DistinctSlugs(work)

\* a query kept an article that contains it only in another case
C22_Witness ==
    /\ pc.at = "searchPosts"
    /\ trim(searchQuery) # EmptyStr
    /\ Len(posts) >= 2
    /\ \E i \in 1..Len(work) :
          /\ ~includes(work[i].title, searchQuery)
          /\ ~includes(work[i].excerpt, searchQuery)
          /\ \A t \in 1..Len(work[i].tags) : ~includes(work[i].tags[t], searchQuery)

\* s holds exactly the elements of t that satisfy keep, in the order of t
TagStageOf(s, t, tag) ==
    /\ DistinctSlugs(s)
    /\ \A k \in 1..Len(t) : InList(s, t[k].slug) <=> CarriesTag(t[k], tag)
    /\ \A i \in 1..Len(s) : InList(t, s[i].slug)
    /\ \A i, j \in 1..Len(s) :
           i < j => PosIn(t, s[i].slug) < PosIn(t, s[j].slug)

NoPostCarries(tag) == \A k \in 1..Len(posts) : ~CarriesTag(posts[k], tag)

\* C23: filterPostsByTag keeps exactly the articles with a tag equal to the
\* given one, case-insensitively, in input order; so a tag from the URL that
\* no article carries gives an empty VisibleSet.
C23_TagFilterMatch ==
    /\ (pc.at = "tags" /\ pc.i > 1) =>
           TagStageOf(work, stageIn, selectedTags[pc.i - 1])
    /\ (pc.at = "done" /\ \E i \in 1..Len(selectedTags) :
                              NoPostCarries(selectedTags[i])) => work = <<>>

\* the tag selection decoded from a URL names a tag no article carries, and
\* the evaluation of a list of articles ended empty
C23_Witness ==
    /\ pc.at = "done"
    /\ arrayIncludes(selectedTags, <<"z">>)
    /\ trim(searchQuery) = EmptyStr
    /\ Len(posts) >= 2
    /\ work = <<>>

\* C24: a firing timer leaves no timer armed, and none is armed again before
\* the next input: not by the delivery of the URL the timer pushed either,
\* so that one committed input causes one push.
C24_IdleAfterTimerFire ==
    typed # <<>> =>
        /\ lastOp.op = "timerFire" => timers = {}
        /\ (lastOp.op = "deliver" /\ lastOp.after = "timerFire") => timers = {}

\* C25: with no timer armed and no navigation pending, the FilterState is the
\* decode of the URL shown.
C25_QuiescentStateIsUrl ==
    (timers = {} /\ navQueue = <<>>) => FilterState = DecodeURL(url)

\* C26: the delivery of a URL the controller pushed itself never changes the
\* FilterState.
C26_OwnPushKeepsState ==
    lastOp.op = "deliver" => ~lastOp.moved

\* C27: selecting exactly the tag of an entry of the tag index, with an empty
\* search, leaves as many articles visible as the entry's count says.
C27_ChipCountMatchesFilter ==
    pc.at = "getAllTagsFromPosts" =>
        \A i \in 1..Len(work) :
            Len(filteredPostsOf(posts, EmptyStr, << work[i].tag >>, DATE, DESC))
                = work[i].count

Without(s, tag) == LET other(t) == t # tag IN SelectSeq(s, other)

\* C28: toggling or removing a tag changes only selectedTags (a toggle
\* appends an unselected tag at the end, and takes a selected tag out, the
\* others keeping their order); changing the sort changes only sortBy and
\* sortOrder; a search commit and removing the search change only
\* searchQuery; the article list stays as it is, and with it the tag index,
\* which is computed from the article list alone.
C28_Frame ==
    [][ /\ lastOp'.op = "toggleTag" =>
               /\ <<searchQuery, sortBy, sortOrder>>' = <<searchQuery, sortBy, sortOrder>>
               /\ \E tag \in tagSet(posts) :
                      selectedTags' = IF arrayIncludes(selectedTags, tag)
                                      THEN Without(selectedTags, tag)
                                      ELSE Append(selectedTags, tag)
        /\ lastOp'.op = "removeTag" =>
               /\ <<searchQuery, sortBy, sortOrder>>' = <<searchQuery, sortBy, sortOrder>>
               /\ \E i \in 1..Len(selectedTags) :
                      selectedTags' = Without(selectedTags, selectedTags[i])
        /\ lastOp'.op = "changeSort" =>
               <<searchQuery, selectedTags>>' = <<searchQuery, selectedTags>>
        /\ lastOp'.op \in { "timerFire", "removeSearch", "searchBarClear" } =>
               <<selectedTags, sortBy, sortOrder>>' = <<selectedTags, sortBy, sortOrder>>
        /\ posts' = posts ]_vars

\* the sort was changed while a query was committed and a tag selected
C28_Witness ==
    /\ lastOp.op = "changeSort"
    /\ searchQuery # EmptyStr
    /\ Len(selectedTags) > 0
    /\ sortBy = TITLE

Reordered(s) ==
    { [i \in 1..Len(s) |-> s[f[i]]] : f \in Permutations(1..Len(s)) }

\* C29: two FilterStates that differ only in the order of the same selected
\* tags have the same VisibleSet, as sequences.
C29_TagOrderIrrelevant ==
    pc.at = "filteredPosts" =>
        \A tags \in Reordered(selectedTags) :
            filteredPostsOf(posts, searchQuery, tags, sortBy, sortOrder) = work

\* two different tags are selected, and together they keep some articles and
\* drop others
C29_Witness ==
    /\ pc.at = "filteredPosts"
    /\ Len(selectedTags) = 2
    /\ toLowerCase(selectedTags[1]) # toLowerCase(selectedTags[2])
    /\ Len(work) > 0
    /\ Len(work) < Len(posts)

ResultsText == getResultsText(Len(work), Len(posts), hasActiveFilters)

\* C30 (as the code has it): visibleCount <= totalCount; hasActiveFilters is
\* false exactly when the FilterState encodes to the empty query string; and
\* with no active filter visibleCount = totalCount and the indicator never
\* reads 'Showing N of M': it reads 'Showing all' for a list that has
\* articles and 'No posts found' for an empty list.
C30_SummaryConsistent ==
    pc.at = "filteredPosts" =>
        /\ Len(work) <= Len(posts)
        /\ ~hasActiveFilters <=>
               updateURL(searchQuery, selectedTags, sortBy, sortOrder) = Bare
        /\ ~hasActiveFilters =>
               /\ Len(work) = Len(posts)
               /\ ResultsText # "Showing N of M"
               /\ ResultsText = IF Len(posts) > 0 THEN "Showing all"
                                ELSE "No posts found"

\* a blank, non-empty query with nothing else set: no filter is active and the
\* whole list is shown
C30_Witness ==
    /\ pc.at = "filteredPosts"
    /\ searchQuery = <<" ">>
    /\ ~hasActiveFilters
    /\ Len(posts) >= 2
    /\ ResultsText = "Showing all"

\* C30: visibleCount <= totalCount; hasActiveFilters is false exactly when the
\* FilterState encodes to the empty query string; and with no active filter
\* visibleCount = totalCount and the indicator reads 'Showing all'.
C30_ShowingAllWithoutFilters ==
    pc.at = "filteredPosts" =>
        /\ Len(work) <= Len(posts)
        /\ ~hasActiveFilters <=>
               updateURL(searchQuery, selectedTags, sortBy, sortOrder) = Bare
        /\ ~hasActiveFilters =>
               /\ Len(work) = Len(posts)
               /\ ResultsText = "Showing all"

====
